---- MODULE Spec2Model ----
(***************************************************************************)
(* Binokel score counter (src/index.tsx): the round-scoring function       *)
(* calculateRoundScores and the App component's state machine (players,    *)
(* activeGame, winner) with its handlers and its win-detection effect.     *)
(***************************************************************************)
EXTENDS Integers, Sequences, FiniteSets, TLC

VARIABLES
    players,        \* App: useLocalStorage('binokel-players'), a sequence of Player
    activeGame,     \* App: useLocalStorage('binokel-active-game'), GameState or Null
    winner,         \* App: useState<Team | null>, never persisted
    effectPending,  \* the win-detection effect is scheduled and has not run yet
    lastOp,         \* history variable: the handler or effect that ran last
    gamesStarted,   \* history variable: handleStartGame calls so far (bounds the run)
    roundsAdded,    \* history variable: rounds confirmed so far (bounds the run)
    reloads,        \* history variable: page reloads so far (bounds the run)
    roundData,      \* argument of a direct calculateRoundScores call
    calcResult      \* what that call returned, Null before the call

vars == <<players, activeGame, winner, effectPending, lastOp, gamesStarted,
          roundsAdded, reloads, roundData, calcResult>>

counters == <<gamesStarted, roundsAdded, reloads>>
gameVars == <<players, activeGame, winner, effectPending, lastOp, counters>>
calcVars == <<roundData, calcResult>>

\* JavaScript null / undefined for a slot that otherwise holds a record.
Null == [null |-> TRUE]

---------------------------------------------------------------------------
\* Bounds of the model.

\* Rounds confirmed in one run.
MaxRounds == 2
\* Games started in one run.
MaxGames == 1
\* Forfeits are offered while every player's gamesPlayed is below this.
MaxGamesPlayed == 1
\* Page reloads in one run (SpecReload).
MaxReloads == 1

\* Players in the collection (SpecPlayers).
MaxPlayers == 3
\* The latest clock reading, in milliseconds (SpecPlayers).
MaxClock == 3

\* RoundInput: const remainingTrickPoints = 240 - totalTrickPoints
TrickPool == 240

---------------------------------------------------------------------------
\* Scoring logic

\* array.reduce((sum, x) => sum + x, 0)
RECURSIVE SumSeq(_)
SumSeq(s) == IF s = <<>> THEN 0 ELSE Head(s) + SumSeq(Tail(s))

\* map[id] || 0 : an absent entry (undefined) counts as 0
Lookup(map, id) == IF id \in DOMAIN map THEN map[id] ELSE 0

\* team.players.some(p => p.id === id)
HasPlayer(team, id) == \E i \in DOMAIN team.players : team.players[i].id = id

PlayerIds(team) == {team.players[i].id : i \in DOMAIN team.players}

\* teams.team1.players.some(p => p.id === spielmacherId) ? 'team1' : 'team2'
SpielmacherTeamKey(rd, teams) ==
    IF HasPlayer(teams.team1, rd.spielmacherId) THEN "team1" ELSE "team2"

OtherTeamKey(key) == IF key = "team1" THEN "team2" ELSE "team1"

\* team.players.reduce((sum, p) => sum + (meldValues[p.id] || 0), 0)
getTeamMeld(rd, team) ==
    SumSeq([i \in DOMAIN team.players |-> Lookup(rd.meldValues, team.players[i].id)])
\* team.players.reduce((sum, p) => sum + (trickPoints[p.id] || 0), 0)
getTeamTricksWithScore(rd, team) ==
    SumSeq([i \in DOMAIN team.players |-> Lookup(rd.trickPoints, team.players[i].id)])
    + team.score
getTeamTricks(rd, team) ==
    SumSeq([i \in DOMAIN team.players |-> Lookup(rd.trickPoints, team.players[i].id)])

\* (trickPoints[p.id] || 0) === 0 ? 0 : (meldValues[p.id] || 0) + (trickPoints[p.id] || 0)
ZeroTrickRuleAlwaysMeld(rd, id) == Lookup(rd.meldValues, id) + Lookup(rd.trickPoints, id)
ZeroTrickRule(rd, id) ==
    IF Lookup(rd.trickPoints, id) = 0
    THEN 0
    ELSE Lookup(rd.meldValues, id) + Lookup(rd.trickPoints, id)

\* if (spielmacherTeamTotal >= bidValue)
BidMadeStrict(total, bidValue) == total > bidValue
BidMade(total, bidValue) == total >= bidValue

\* spielmacherTeamRoundScore = -bidValue
AbandonPenaltyDouble(bidValue) == -2 * bidValue
AbandonPenalty(bidValue) == -bidValue

\* spielmacherTeamRoundScore = -2 * bidValue
FailedBidPenaltySingle(bidValue) == -bidValue
FailedBidPenalty(bidValue) == -2 * bidValue

\* The playerScores object after both forEach passes: the bidder's team is written
\* first, the other team second.
PlayerScoresWithPenalty(rd, teams) ==
    LET spielmacherTeam == teams[SpielmacherTeamKey(rd, teams)]
        otherTeam == teams[OtherTeamKey(SpielmacherTeamKey(rd, teams))]
        spielmacherTeamTotal == getTeamMeld(rd, spielmacherTeam) + getTeamTricks(rd, spielmacherTeam)
        bidderScore(id) ==
            IF rd.gameAbandoned THEN 0
            ELSE IF BidMade(spielmacherTeamTotal, rd.bidValue) THEN ZeroTrickRule(rd, id)
            ELSE -rd.bidValue
        otherScore(id) == IF rd.gameAbandoned THEN 0 ELSE ZeroTrickRule(rd, id)
    IN  [id \in PlayerIds(spielmacherTeam) \cup PlayerIds(otherTeam) |->
            IF id \in PlayerIds(otherTeam) THEN otherScore(id) ELSE bidderScore(id)]
PlayerScores(rd, teams) ==
    LET spielmacherTeam == teams[SpielmacherTeamKey(rd, teams)]
        otherTeam == teams[OtherTeamKey(SpielmacherTeamKey(rd, teams))]
        spielmacherTeamTotal == getTeamMeld(rd, spielmacherTeam) + getTeamTricks(rd, spielmacherTeam)
        bidderScore(id) ==
            IF rd.gameAbandoned THEN 0
            ELSE IF BidMade(spielmacherTeamTotal, rd.bidValue) THEN ZeroTrickRule(rd, id)
            ELSE 0
        otherScore(id) == IF rd.gameAbandoned THEN 0 ELSE ZeroTrickRule(rd, id)
    IN  [id \in PlayerIds(spielmacherTeam) \cup PlayerIds(otherTeam) |->
            IF id \in PlayerIds(otherTeam) THEN otherScore(id) ELSE bidderScore(id)]

\* spielmacherTeamKey === 'team1' ? spielmacherTeamRoundScore : otherTeamRoundScore, and
\* the same for 'team2'
TeamRoundScoreBidderFirst(position, spielmacherTeamKey, spielmacherTeamRoundScore, otherTeamRoundScore) ==
    IF position = "team1" THEN spielmacherTeamRoundScore ELSE otherTeamRoundScore
TeamRoundScore(position, spielmacherTeamKey, spielmacherTeamRoundScore, otherTeamRoundScore) ==
    IF spielmacherTeamKey = position THEN spielmacherTeamRoundScore ELSE otherTeamRoundScore

calculateRoundScores(rd, teams) ==
    LET spielmacherTeamKey == SpielmacherTeamKey(rd, teams)
        spielmacherTeam == teams[spielmacherTeamKey]
        otherTeam == teams[OtherTeamKey(spielmacherTeamKey)]
        playerScores == PlayerScores(rd, teams)
        getTeamScoreFromPlayerScores(team) ==
            SumSeq([i \in DOMAIN team.players |-> playerScores[team.players[i].id]])
        spielmacherTeamTotal == getTeamMeld(rd, spielmacherTeam) + getTeamTricks(rd, spielmacherTeam)
        spielmacherTeamRoundScore ==
            IF rd.gameAbandoned THEN AbandonPenalty(rd.bidValue)
            ELSE IF spielmacherTeamTotal < rd.bidValue THEN FailedBidPenalty(rd.bidValue)
            ELSE getTeamScoreFromPlayerScores(spielmacherTeam)
        otherTeamRoundScore == getTeamScoreFromPlayerScores(otherTeam)
        reason ==
            IF rd.gameAbandoned THEN <<"Spielmacher hat abgebrochen">>
            ELSE IF BidMade(spielmacherTeamTotal, rd.bidValue)
                 THEN <<"Reizwert erreicht", spielmacherTeamTotal, ">=", rd.bidValue>>
                 ELSE <<"Reizwert nicht erreicht", spielmacherTeamTotal, "<", rd.bidValue>>
    IN  [team1RoundScore |-> TeamRoundScore("team1", spielmacherTeamKey,
                                            spielmacherTeamRoundScore, otherTeamRoundScore),
         team2RoundScore |-> TeamRoundScore("team2", spielmacherTeamKey,
                                            spielmacherTeamRoundScore, otherTeamRoundScore),
         playerScores |-> playerScores,
         reason |-> reason]

---------------------------------------------------------------------------
\* Team selection and game start

\* players.find(p => p.id === id): the first player with that id
FindPlayer(ps, id) ==
    ps[CHOOSE i \in DOMAIN ps : ps[i].id = id /\ \A j \in 1..(i - 1) : ps[j].id # id]

\* `${p1.name} & ${p2.name}`
TeamName(p1, p2) == p1.name \o " & " \o p2.name

\* TeamSelectionScreen.handleStart: newTeams, from the four selected ids
\* sel = <<team1p1, team1p2, team2p1, team2p2>>
NewTeams(ps, sel) ==
    LET p1_1 == FindPlayer(ps, sel[1])
        p1_2 == FindPlayer(ps, sel[2])
        p2_1 == FindPlayer(ps, sel[3])
        p2_2 == FindPlayer(ps, sel[4])
    IN  [team1 |-> [name |-> TeamName(p1_1, p1_2), players |-> <<p1_1, p1_2>>, score |-> 0],
         team2 |-> [name |-> TeamName(p2_1, p2_2), players |-> <<p2_1, p2_2>>, score |-> 0]]

\* App.handleStartGame: the value given to setActiveGame
handleStartGame(teams, targetScore) ==
    [teams |-> teams, targetScore |-> targetScore, roundHistory |-> <<>>]

\* [...teams.team1.players, ...teams.team2.players]
AllPlayers(teams) == teams.team1.players \o teams.team2.players

---------------------------------------------------------------------------
\* handleAddRound

\* score + roundScore
AddToScoreReplace(score, roundScore) == roundScore
AddToScore(score, roundScore) == score + roundScore

\* round: activeGame.roundHistory.length + 1
RoundNumberFromZero(history) == Len(history)
RoundNumber(history) == Len(history) + 1

\* setPlayers(prevPlayers => prevPlayers.map(p => playerScores[p.id] !== undefined ? ... : p))
AddRoundPlayers(ps, playerScores) ==
    [i \in DOMAIN ps |->
        IF ps[i].id \in DOMAIN playerScores
        THEN [ps[i] EXCEPT !.lifetimeScore = @ + playerScores[ps[i].id]]
        ELSE ps[i]]

\* [...].find(p => p.id === roundData.spielmacherId)?.name || '?'
SpielmacherName(teams, id) ==
    LET all == AllPlayers(teams)
    IN  IF \E i \in DOMAIN all : all[i].id = id THEN FindPlayer(all, id).name ELSE "?"

\* The GameState handleAddRound gives to setActiveGame.
AddRoundGame(game, rd) ==
    LET res == calculateRoundScores(rd, game.teams)
        updatedTeams ==
            [team1 |-> [game.teams.team1 EXCEPT
                            !.score = AddToScore(game.teams.team1.score, res.team1RoundScore)],
             team2 |-> [game.teams.team2 EXCEPT
                            !.score = AddToScore(game.teams.team2.score, res.team2RoundScore)]]
        newRoundHistoryItem ==
            [round |-> RoundNumber(game.roundHistory),
             team1RoundScore |-> res.team1RoundScore,
             team2RoundScore |-> res.team2RoundScore,
             team1Total |-> updatedTeams.team1.score,
             team2Total |-> updatedTeams.team2.score,
             spielmacherId |-> rd.spielmacherId,
             spielmacherName |-> SpielmacherName(game.teams, rd.spielmacherId),
             bidValue |-> rd.bidValue,
             playerScores |-> res.playerScores]
    IN  [game EXCEPT !.teams = updatedTeams,
                     !.roundHistory = Append(game.roundHistory, newRoundHistoryItem)]

\* if (!activeGame) return;
AddRoundReturns(game) == game = Null

handleAddRound(rd) ==
    /\ lastOp' = "addRound"
    /\ UNCHANGED winner
    /\ IF AddRoundReturns(activeGame)
       THEN UNCHANGED <<players, activeGame, effectPending>>
       ELSE /\ players' = AddRoundPlayers(players,
                              calculateRoundScores(rd, activeGame.teams).playerScores)
            /\ activeGame' = AddRoundGame(activeGame, rd)
            /\ effectPending' = TRUE

---------------------------------------------------------------------------
\* handleUndoRound

\* prevGame.roundHistory.slice(0, -1)
DropFirst(history) == Tail(history)
DropLast(history) == SubSeq(history, 1, Len(history) - 1)

\* score - lastRound.teamNRoundScore
RevertNothing(score, roundScore) == score
RevertScore(score, roundScore) == score - roundScore

\* setPlayers(prevPlayers => prevPlayers.map(p => ...lifetimeScore - pointsToRevert))
UndoRoundPlayersKeep(ps, lastRound) == ps
UndoRoundPlayers(ps, lastRound) ==
    [i \in DOMAIN ps |->
        LET pointsToRevert == Lookup(lastRound.playerScores, ps[i].id)
        IN  IF pointsToRevert # 0
            THEN [ps[i] EXCEPT !.lifetimeScore = @ - pointsToRevert]
            ELSE ps[i]]

\* The GameState handleUndoRound gives to setActiveGame (history not empty).
UndoRoundGame(game) ==
    LET lastRound == game.roundHistory[Len(game.roundHistory)]
        newTeams ==
            [team1 |-> [game.teams.team1 EXCEPT
                            !.score = RevertScore(game.teams.team1.score, lastRound.team1RoundScore)],
             team2 |-> [game.teams.team2 EXCEPT
                            !.score = RevertScore(game.teams.team2.score, lastRound.team2RoundScore)]]
    IN  [game EXCEPT !.teams = newTeams, !.roundHistory = DropLast(game.roundHistory)]

\* if (!activeGame || activeGame.roundHistory.length === 0) return;
\* if (!lastRound) return;  (lastRound is undefined only for an empty history)
UndoRoundReturnsShort(game) == game = Null \/ Len(game.roundHistory) <= 1
UndoRoundReturns(game) == game = Null \/ Len(game.roundHistory) = 0

handleUndoRound ==
    /\ lastOp' = "undoRound"
    /\ UNCHANGED winner
    /\ IF UndoRoundReturns(activeGame)
       THEN UNCHANGED <<players, activeGame, effectPending>>
       ELSE /\ players' = UndoRoundPlayers(players,
                              activeGame.roundHistory[Len(activeGame.roundHistory)])
            /\ activeGame' = UndoRoundGame(activeGame)
            /\ effectPending' = TRUE

---------------------------------------------------------------------------
\* handleEndGame and the win-detection effect

\* activeGame.teams.team1.name === winnerTeam.name ? teams.team2 : teams.team1
LoserTeam(game, winnerTeam) ==
    IF game.teams.team1.name = winnerTeam.name THEN game.teams.team2 ELSE game.teams.team1

\* setPlayers(prevPlayers => prevPlayers.map(p => ...)) of handleEndGame
EndGamePlayersLosersOnly(ps, game, winnerTeam) ==
    [i \in DOMAIN ps |->
        LET won == HasPlayer(winnerTeam, ps[i].id)
            playedInThisGame == ~won /\ HasPlayer(LoserTeam(game, winnerTeam), ps[i].id)
        IN  [ps[i] EXCEPT !.wins = IF won THEN @ + 1 ELSE @,
                          !.gamesPlayed = IF playedInThisGame THEN @ + 1 ELSE @]]
EndGamePlayers(ps, game, winnerTeam) ==
    [i \in DOMAIN ps |->
        LET won == HasPlayer(winnerTeam, ps[i].id)
            playedInThisGame == won \/ HasPlayer(LoserTeam(game, winnerTeam), ps[i].id)
        IN  [ps[i] EXCEPT !.wins = IF won THEN @ + 1 ELSE @,
                          !.gamesPlayed = IF playedInThisGame THEN @ + 1 ELSE @]]

handleEndGameIfAtTarget(winnerTeam) ==
    IF activeGame = Null \/ winnerTeam.score < activeGame.targetScore
    THEN UNCHANGED <<winner, players>>
    ELSE /\ winner' = winnerTeam
         /\ players' = EndGamePlayers(players, activeGame, winnerTeam)
handleEndGame(winnerTeam) ==
    IF activeGame = Null
    THEN UNCHANGED <<winner, players>>
    ELSE /\ winner' = winnerTeam
         /\ players' = EndGamePlayers(players, activeGame, winnerTeam)

\* useEffect: if (!activeGame || winner) return;
EffectReturnsIgnoringWinner(game, win) == game = Null
EffectReturns(game, win) == game = Null \/ win # Null

\* useEffect: team1 is compared with the target first, then team2
WinningTeamKeyStrict(game) ==
    IF game.teams.team1.score > game.targetScore THEN "team1"
    ELSE IF game.teams.team2.score > game.targetScore THEN "team2"
    ELSE "none"
WinningTeamKeyTeam2First(game) ==
    IF game.teams.team2.score >= game.targetScore THEN "team2"
    ELSE IF game.teams.team1.score >= game.targetScore THEN "team1"
    ELSE "none"
WinningTeamKey(game) ==
    IF game.teams.team1.score >= game.targetScore THEN "team1"
    ELSE IF game.teams.team2.score >= game.targetScore THEN "team2"
    ELSE "none"

\* One run of the effect of [activeGame, winner]; setWinner schedules it again.
WinDetection ==
    /\ effectPending
    /\ lastOp' = "effect"
    /\ UNCHANGED <<activeGame, counters, calcVars>>
    /\ IF EffectReturns(activeGame, winner)
       THEN UNCHANGED <<winner, players>>
       ELSE IF WinningTeamKey(activeGame) = "none"
       THEN UNCHANGED <<winner, players>>
       ELSE handleEndGame(activeGame.teams[WinningTeamKey(activeGame)])
    /\ effectPending' = (winner' # winner)

\* handleReset: setWinner(null); setActiveGame(null)
handleResetKeepingGame ==
    /\ winner' = Null
    /\ effectPending' = TRUE
    /\ UNCHANGED <<activeGame, players>>
handleResetKeepingWinner ==
    /\ activeGame' = Null
    /\ effectPending' = TRUE
    /\ UNCHANGED <<winner, players>>
handleReset ==
    /\ winner' = Null
    /\ activeGame' = Null
    /\ effectPending' = TRUE
    /\ UNCHANGED players

---------------------------------------------------------------------------
\* What the screens let the user do. Handlers run between effects: React runs a
\* scheduled effect before it handles the next event.

\* Names of the five players in storage when the App is constructed. Two pairs of players
\* share their names, so that a selection can give both teams the same name.
RosterNames == {<<"A", "B", "A", "B", "E">>}

InitialPlayers(names) ==
    [i \in DOMAIN names |->
        [id |-> i, name |-> names[i], lifetimeScore |-> 0, gamesPlayed |-> 0, wins |-> 0]]

\* The selections of four players tried: <<team1p1, team1p2, team2p1, team2p2>>
TeamSelections == {<<1, 2, 3, 4>>, <<3, 5, 1, 2>>}
TargetScores == {240}

\* The round form's entries tried, by position in allPlayers.
BidderPositions == {1, 3}
BidValues == {150}
MeldVectors == {<<0, 0, 0, 0>>, <<0, 0, 40, 0>>}
TrickVectors == {<<240, 0, 0, 0>>, <<0, 0, 0, 240>>, <<120, 0, 120, 0>>, <<0, 0, 0, 0>>}

\* The form's per-player entries as an object keyed by player id.
KeyedById(teams, vec) ==
    LET all == AllPlayers(teams)
    IN  [id \in {all[i].id : i \in DOMAIN all} |->
            vec[CHOOSE i \in DOMAIN all : all[i].id = id]]

\* RoundInput.handleReview: rawData
RawData(teams, pos, bidValue, meld, tricks, gameAbandoned) ==
    [spielmacherId |-> AllPlayers(teams)[pos].id,
     bidValue |-> bidValue,
     meldValues |-> KeyedById(teams, meld),
     trickPoints |-> KeyedById(teams, tricks),
     gameAbandoned |-> gameAbandoned]

\* isSubmitDisabled = !gameAbandoned && remainingTrickPoints !== 0
IsSubmitDisabled(tricks, gameAbandoned) ==
    ~gameAbandoned /\ TrickPool - SumSeq(tricks) # 0

\* TeamSelectionScreen.handleStart, then App.handleStartGame
StartGame ==
    /\ ~effectPending
    /\ activeGame = Null
    /\ gamesStarted < MaxGames
    /\ \E sel \in TeamSelections, targetScore \in TargetScores :
        /\ Cardinality({sel[i] : i \in DOMAIN sel}) = 4
        /\ \A i \in DOMAIN sel : \E j \in DOMAIN players : players[j].id = sel[i]
        /\ activeGame' = handleStartGame(NewTeams(players, sel), targetScore)
    /\ effectPending' = TRUE
    /\ gamesStarted' = gamesStarted + 1
    /\ lastOp' = "startGame"
    /\ UNCHANGED <<players, winner, roundsAdded, reloads, calcVars>>

\* RoundInput.handleReview then handleConfirmRound, which calls handleAddRound(rawData)
ConfirmRound ==
    /\ ~effectPending
    /\ activeGame # Null
    /\ roundsAdded < MaxRounds
    /\ roundsAdded' = roundsAdded + 1
    /\ \E pos \in BidderPositions, bidValue \in BidValues, meld \in MeldVectors,
          tricks \in TrickVectors, gameAbandoned \in BOOLEAN :
        /\ ~IsSubmitDisabled(tricks, gameAbandoned)
        /\ handleAddRound(RawData(activeGame.teams, pos, bidValue, meld, tricks, gameAbandoned))
    /\ UNCHANGED <<gamesStarted, reloads, calcVars>>

\* GameScreen: the undo button (disabled while the history is empty)
UndoRound ==
    /\ ~effectPending
    /\ activeGame # Null
    /\ Len(activeGame.roundHistory) # 0
    /\ handleUndoRound
    /\ UNCHANGED <<counters, calcVars>>

\* GameScreen.handleForfeit from the EndGameModal: onEndGame(winner)
Forfeit ==
    /\ ~effectPending
    /\ activeGame # Null
    /\ \A i \in DOMAIN players : players[i].gamesPlayed < MaxGamesPlayed
    /\ \E key \in {"team1", "team2"} : handleEndGame(activeGame.teams[key])
    /\ effectPending' = (winner' # winner)
    /\ lastOp' = "forfeit"
    /\ UNCHANGED <<activeGame, counters, calcVars>>

\* GameScreen.handleDiscard (confirmed): onResetGame()
Discard ==
    /\ ~effectPending
    /\ activeGame # Null
    /\ handleReset
    /\ lastOp' = "discard"
    /\ UNCHANGED <<counters, calcVars>>

\* WinnerModal: onReset
WinnerReset ==
    /\ ~effectPending
    /\ winner # Null
    /\ handleReset
    /\ lastOp' = "reset"
    /\ UNCHANGED <<counters, calcVars>>

\* The page is loaded again: useLocalStorage reads players and activeGame back from
\* storage, where every setValue wrote them; useState(null) is the winner.
Reload ==
    /\ reloads < MaxReloads
    /\ reloads' = reloads + 1
    /\ winner' = Null
    /\ effectPending' = TRUE
    /\ lastOp' = "reload"
    /\ UNCHANGED <<players, activeGame, gamesStarted, roundsAdded, calcVars>>

Init ==
    /\ players \in {InitialPlayers(names) : names \in RosterNames}
    /\ activeGame = Null
    /\ winner = Null
    /\ effectPending = TRUE
    /\ lastOp = "mount"
    /\ gamesStarted = 0
    /\ roundsAdded = 0
    /\ reloads = 0
    /\ roundData = Null
    /\ calcResult = Null

Next ==
    \/ WinDetection
    \/ StartGame
    \/ ConfirmRound
    \/ UndoRound
    \/ Forfeit
    \/ Discard
    \/ WinnerReset

\* One session of the App.
Spec == Init /\ [][Next]_vars

NextReload == Next \/ Reload

\* Sessions of the App over the same storage.
SpecReload == Init /\ [][NextReload]_vars

---------------------------------------------------------------------------
\* calculateRoundScores called directly, on any argument

CalcBidders == {1, 2, 3, 4, 5}
CalcBidValues == {100, 150}
CalcMeldEntries == {0, 50}
CalcTrickEntries == {0, 100}
CalcIds == {1, 2, 3, 4}

\* The objects that hold one of the entries for some of the ids; the other keys are missing.
ObjectsOver(entries) == UNION {[ids -> entries] : ids \in SUBSET CalcIds}

InitCalc ==
    /\ players = InitialPlayers(<<"A", "B", "C", "D", "E">>)
    /\ activeGame \in {handleStartGame(NewTeams(players, sel), targetScore) :
                          sel \in {<<1, 2, 3, 4>>, <<3, 4, 1, 2>>}, targetScore \in TargetScores}
    /\ winner = Null
    /\ effectPending = FALSE
    /\ lastOp = "startGame"
    /\ gamesStarted = 1
    /\ roundsAdded = 0
    /\ reloads = 0
    /\ roundData \in [spielmacherId : CalcBidders,
                      bidValue : CalcBidValues,
                      meldValues : ObjectsOver(CalcMeldEntries),
                      trickPoints : ObjectsOver(CalcTrickEntries),
                      gameAbandoned : BOOLEAN]
    /\ calcResult = Null

Calculate ==
    /\ calcResult = Null
    /\ calcResult' = calculateRoundScores(roundData, activeGame.teams)
    /\ UNCHANGED <<gameVars, roundData>>

NextCalc == Calculate

SpecCalc == InitCalc /\ [][NextCalc]_vars

---------------------------------------------------------------------------
\* The handlers called directly, in any state and on any argument

\* The bidders tried: with the selection <<1, 2, 3, 4>> player 5 is on neither team.
DirectBidders == {1, 5}
\* trickPoints objects with one entry; meldValues is the empty object.
DirectTrickPoints == {2 :> 240, 3 :> 240}

DirectRoundData ==
    [spielmacherId : DirectBidders,
     bidValue : BidValues,
     meldValues : {<<>>},
     trickPoints : DirectTrickPoints,
     gameAbandoned : BOOLEAN]

\* handleAddRound(roundData), whether or not a game is active or won
AddRoundDirect ==
    /\ ~effectPending
    /\ activeGame # Null => roundsAdded < MaxRounds
    /\ roundsAdded' = IF activeGame = Null THEN roundsAdded ELSE roundsAdded + 1
    /\ \E rd \in DirectRoundData :
        /\ roundData' = rd
        /\ handleAddRound(rd)
    /\ UNCHANGED <<gamesStarted, reloads, calcResult>>

\* handleUndoRound(), whether or not a game is active or won and whatever the history
UndoRoundDirect ==
    /\ ~effectPending
    /\ handleUndoRound
    /\ UNCHANGED <<counters, calcVars>>

NextDirect ==
    \/ WinDetection
    \/ StartGame
    \/ AddRoundDirect
    \/ UndoRoundDirect
    \/ Forfeit
    \/ Discard
    \/ WinnerReset

SpecDirect == Init /\ [][NextDirect]_vars

---------------------------------------------------------------------------
\* Games started with any number in the target field

\* <input type="number" value={targetScore} onChange={e => setTargetScore(Number(e.target.value))}>
\* takes any number; the empty field gives 0.
EnteredTargetScores == {-50, 0, 240}

\* TeamSelectionScreen.handleStart, then App.handleStartGame, with the entered target
StartGameEnteredTarget ==
    /\ ~effectPending
    /\ activeGame = Null
    /\ gamesStarted < MaxGames
    /\ \E sel \in TeamSelections, targetScore \in EnteredTargetScores :
        /\ Cardinality({sel[i] : i \in DOMAIN sel}) = 4
        /\ \A i \in DOMAIN sel : \E j \in DOMAIN players : players[j].id = sel[i]
        /\ activeGame' = handleStartGame(NewTeams(players, sel), targetScore)
    /\ effectPending' = TRUE
    /\ gamesStarted' = gamesStarted + 1
    /\ lastOp' = "startGame"
    /\ UNCHANGED <<players, winner, roundsAdded, reloads, calcVars>>

NextTarget ==
    \/ WinDetection
    \/ StartGameEnteredTarget
    \/ ConfirmRound
    \/ UndoRound
    \/ Forfeit
    \/ Discard
    \/ WinnerReset

SpecTarget == Init /\ [][NextTarget]_vars

---------------------------------------------------------------------------
\* The round form with its review step. RoundInput's reviewData is {rawData, calculation};
\* roundData holds rawData and calcResult holds calculation, both Null while the form shows.

\* RoundInput.handleReview: the form is submitted
Review ==
    /\ ~effectPending
    /\ activeGame # Null
    /\ roundData = Null
    /\ \E pos \in BidderPositions, bidValue \in BidValues, meld \in MeldVectors,
          tricks \in TrickVectors, gameAbandoned \in BOOLEAN :
        /\ ~IsSubmitDisabled(tricks, gameAbandoned)
        /\ roundData' = RawData(activeGame.teams, pos, bidValue, meld, tricks, gameAbandoned)
        /\ calcResult' = calculateRoundScores(roundData', activeGame.teams)
    /\ lastOp' = "review"
    /\ UNCHANGED <<players, activeGame, winner, effectPending, counters>>

\* RoundInput.handleCancelReview: setReviewData(null)
CancelReview ==
    /\ ~effectPending
    /\ roundData # Null
    /\ roundData' = Null
    /\ calcResult' = Null
    /\ lastOp' = "cancelReview"
    /\ UNCHANGED <<players, activeGame, winner, effectPending, counters>>

\* RoundInput.handleConfirmRound: onAddRound(reviewData.rawData); resetForm()
ConfirmReviewed ==
    /\ ~effectPending
    /\ activeGame # Null
    /\ roundData # Null
    /\ roundsAdded < MaxRounds
    /\ roundsAdded' = roundsAdded + 1
    /\ handleAddRound(roundData)
    /\ roundData' = Null
    /\ calcResult' = Null
    /\ UNCHANGED <<gamesStarted, reloads>>

\* GameScreen.handleDiscard (confirmed): onResetGame(); the GameScreen is unmounted and
\* RoundInput's state with it.
DiscardUnmount ==
    /\ ~effectPending
    /\ activeGame # Null
    /\ handleReset
    /\ roundData' = Null
    /\ calcResult' = Null
    /\ lastOp' = "discard"
    /\ UNCHANGED counters

NextReview ==
    \/ WinDetection
    \/ StartGame
    \/ Review
    \/ CancelReview
    \/ ConfirmReviewed
    \/ UndoRound
    \/ DiscardUnmount

SpecReview == Init /\ [][NextReview]_vars

---------------------------------------------------------------------------
\* The player collection, from the empty storage of a first visit

\* Names typed into the new-player field (trimmed, not empty).
PlayerNames == {"A", "B"}

\* Date.now() in milliseconds. The clock does not run backwards: a reading is not before
\* the reading that any player in the collection was created at.
ClockReadings(ps) == {now \in 1..MaxClock : \A i \in DOMAIN ps : ps[i].id <= now}

\* handleAddPlayer: the collection given to setPlayers; the id is `player-${Date.now()}`
handleAddPlayer(ps, name, now) ==
    Append(ps, [id |-> now, name |-> name, lifetimeScore |-> 0, gamesPlayed |-> 0, wins |-> 0])

\* prev.filter(p => p.id !== playerId)
handleDeletePlayerByName(ps, playerId) ==
    SelectSeq(ps, LAMBDA p : p.name # FindPlayer(ps, playerId).name)
handleDeletePlayer(ps, playerId) == SelectSeq(ps, LAMBDA p : p.id # playerId)

\* PlayerStatsScreen.handleAddPlayer, or TeamSelectionScreen.handleAddNewPlayer
AddPlayer ==
    /\ ~effectPending
    /\ Len(players) < MaxPlayers
    /\ \E name \in PlayerNames, now \in ClockReadings(players) :
        players' = handleAddPlayer(players, name, now)
    /\ lastOp' = "addPlayer"
    /\ UNCHANGED <<activeGame, winner, effectPending, counters, calcVars>>

\* PlayerStatsScreen.handleDeletePlayer (confirmed)
DeletePlayer ==
    /\ ~effectPending
    /\ \E i \in DOMAIN players : players' = handleDeletePlayer(players, players[i].id)
    /\ lastOp' = "deletePlayer"
    /\ UNCHANGED <<activeGame, winner, effectPending, counters, calcVars>>

InitPlayers ==
    /\ players = <<>>
    /\ activeGame = Null
    /\ winner = Null
    /\ effectPending = TRUE
    /\ lastOp = "mount"
    /\ gamesStarted = 0
    /\ roundsAdded = 0
    /\ reloads = 0
    /\ roundData = Null
    /\ calcResult = Null

NextPlayers ==
    \/ WinDetection
    \/ AddPlayer
    \/ DeletePlayer

SpecPlayers == InitPlayers /\ [][NextPlayers]_vars

---------------------------------------------------------------------------
\* The round form with any number in the bid field

\* <input type="number" value={bidValue} onChange={e => setBidValue(Number(e.target.value))}>
\* takes any number; the empty field gives 0.
EnteredBidValues == {-100, 0, 150}

\* RoundInput.handleReview with the entered bid
ReviewEnteredBid ==
    /\ ~effectPending
    /\ activeGame # Null
    /\ roundData = Null
    /\ \E pos \in BidderPositions, bidValue \in EnteredBidValues, meld \in MeldVectors,
          tricks \in TrickVectors, gameAbandoned \in BOOLEAN :
        /\ ~IsSubmitDisabled(tricks, gameAbandoned)
        /\ roundData' = RawData(activeGame.teams, pos, bidValue, meld, tricks, gameAbandoned)
        /\ calcResult' = calculateRoundScores(roundData', activeGame.teams)
    /\ lastOp' = "review"
    /\ UNCHANGED <<players, activeGame, winner, effectPending, counters>>

NextBid ==
    \/ WinDetection
    \/ StartGame
    \/ ReviewEnteredBid
    \/ CancelReview
    \/ ConfirmReviewed
    \/ UndoRound
    \/ DiscardUnmount

SpecBid == Init /\ [][NextBid]_vars

---------------------------------------------------------------------------
\* Players deleted on the statistics screen while games are played

\* The players whose delete button is tried: with the selection <<1, 2, 3, 4>> player 1 is
\* in the game and player 5 is not.
DeleteCandidates == {1, 5}

\* PlayerStatsScreen.handleDeletePlayer (confirmed), with or without an active game
DeleteLedgerPlayer ==
    /\ ~effectPending
    /\ \E id \in DeleteCandidates :
        /\ \E i \in DOMAIN players : players[i].id = id
        /\ players' = handleDeletePlayer(players, id)
    /\ lastOp' = "deletePlayer"
    /\ UNCHANGED <<activeGame, winner, effectPending, counters, calcVars>>

NextDelete ==
    \/ WinDetection
    \/ StartGame
    \/ ConfirmRound
    \/ UndoRound
    \/ DeleteLedgerPlayer
    \/ Discard

SpecDelete == Init /\ [][NextDelete]_vars

---------------------------------------------------------------------------
\* Properties of the game state

Team1Sum(history) == SumSeq([i \in DOMAIN history |-> history[i].team1RoundScore])
Team2Sum(history) == SumSeq([i \in DOMAIN history |-> history[i].team2RoundScore])

\* Every RoundData the round form can submit for these teams.
FormRoundData(teams) ==
    {RawData(teams, pos, bidValue, meld, tricks, gameAbandoned) :
        pos \in BidderPositions, bidValue \in BidValues, meld \in MeldVectors,
        tricks \in {t \in TrickVectors : SumSeq(t) = TrickPool}, gameAbandoned \in BOOLEAN}

\* The ledger entries of the players of a team.
LedgerOf(team) == {i \in DOMAIN players : HasPlayer(team, players[i].id)}

\* C1: with an active game, each team's score is the sum of its round scores over the
\* entries now in roundHistory, after any sequence of addRound and undoLastRound.
C1_ScoreIsSumOfHistory ==
    activeGame # Null =>
        /\ activeGame.teams.team1.score = Team1Sum(activeGame.roundHistory)
        /\ activeGame.teams.team2.score = Team2Sum(activeGame.roundHistory)

\* A round was undone and a round with a penalty for team1 and points for team2 remains.
C1_Witness ==
    /\ activeGame # Null
    /\ lastOp = "undoRound"
    /\ Len(activeGame.roundHistory) = 1
    /\ activeGame.roundHistory[1].team1RoundScore < 0
    /\ activeGame.teams.team1.score < 0
    /\ activeGame.teams.team2.score > 0

\* C2: in every state in which the App takes a round (an active game, no effect pending),
\* for every round the form can submit, undoing right after adding gives back the game as it
\* was: the teams with their scores, the target and the whole round history; and every
\* undo step removes exactly the last entry of the history, leaving the entries before it
\* as they were.
C2_UndoInvertsAdd ==
    /\ []((activeGame # Null /\ ~effectPending) =>
            \A rd \in FormRoundData(activeGame.teams) :
                LET added == AddRoundGame(activeGame, rd)
                IN  /\ Len(added.roundHistory) = Len(activeGame.roundHistory) + 1
                    /\ UndoRoundGame(added) = activeGame)
    /\ [][(lastOp' = "undoRound" /\ activeGame # Null) =>
            /\ activeGame' # Null
            /\ Len(activeGame'.roundHistory) = Len(activeGame.roundHistory) - 1
            /\ \A k \in DOMAIN activeGame'.roundHistory :
                   activeGame'.roundHistory[k] = activeGame.roundHistory[k]]_vars

\* A round was added after an earlier one and undone again: the earlier round remains.
C2_Witness ==
    /\ activeGame # Null
    /\ lastOp = "undoRound"
    /\ roundsAdded = 2
    /\ Len(activeGame.roundHistory) = 1
    /\ activeGame.teams.team1.score # 0
    /\ activeGame.teams.team2.score # 0

\* C3: when a round brings a team to the target while no winner is set, win detection
\* applies handleEndGame once (the winning team's players gain exactly one win and one
\* game, nobody gains more than one) and its next run, with the winner set, changes
\* nothing; an undo changes no gamesPlayed, no wins and not the winner; the winner is
\* only cleared together with the active game.
C3_WinRecordedOnce ==
    /\ [][(lastOp = "addRound" /\ lastOp' = "effect" /\ activeGame # Null /\ winner = Null
           /\ (\/ activeGame.teams.team1.score >= activeGame.targetScore
               \/ activeGame.teams.team2.score >= activeGame.targetScore)) =>
            /\ winner' # Null
            /\ \A i \in DOMAIN players :
                /\ players'[i].gamesPlayed - players[i].gamesPlayed \in {0, 1}
                /\ players'[i].wins - players[i].wins \in {0, 1}
                /\ HasPlayer(winner', players[i].id) =>
                       /\ players'[i].gamesPlayed = players[i].gamesPlayed + 1
                       /\ players'[i].wins = players[i].wins + 1]_vars
    /\ [][(lastOp' = "effect" /\ winner # Null) =>
            (players' = players /\ winner' = winner)]_vars
    /\ [][lastOp' = "undoRound" =>
            /\ winner' = winner
            /\ \A i \in DOMAIN players :
                /\ players'[i].gamesPlayed = players[i].gamesPlayed
                /\ players'[i].wins = players[i].wins]_vars
    /\ [][(winner # Null /\ winner' = Null) => activeGame' = Null]_vars

\* The winning round was undone: the scores are below the target again, the winner and the
\* recorded game stay.
C3_Witness ==
    /\ activeGame # Null
    /\ winner # Null
    /\ lastOp = "undoRound"
    /\ winner.score >= activeGame.targetScore
    /\ activeGame.teams.team1.score < activeGame.targetScore
    /\ activeGame.teams.team2.score < activeGame.targetScore
    /\ \A i \in LedgerOf(winner) : players[i].gamesPlayed = 1 /\ players[i].wins = 1

\* C4: during a game, no participant's gamesPlayed and no participant's wins is more than
\* one above its value when the game started (the teams hold the players as they were at
\* the start).
C4_CompletionAtMostOncePerGame ==
    activeGame # Null =>
        \A i \in DOMAIN players :
            \A k \in DOMAIN AllPlayers(activeGame.teams) :
                LET atStart == AllPlayers(activeGame.teams)[k]
                IN  atStart.id = players[i].id =>
                        /\ players[i].gamesPlayed - atStart.gamesPlayed <= 1
                        /\ players[i].wins - atStart.wins <= 1

\* C5: once win detection has run, an active game without a winner has both scores below
\* the target; so has the game an undo leaves when no winner is set; and the team that
\* win detection records as winner is a team of the game with a score at or above the
\* target.
C5_NoWinnerMeansBelowTarget ==
    /\ []((activeGame # Null /\ winner = Null /\ (~effectPending \/ lastOp = "undoRound")) =>
            /\ activeGame.teams.team1.score < activeGame.targetScore
            /\ activeGame.teams.team2.score < activeGame.targetScore)
    /\ [][(lastOp' = "effect" /\ winner = Null /\ winner' # Null) =>
            /\ winner' \in {activeGame.teams.team1, activeGame.teams.team2}
            /\ winner'.score >= activeGame.targetScore]_vars

\* Win detection has recorded team2, which reached the target exactly or passed it.
C5_Witness ==
    /\ activeGame # Null
    /\ ~effectPending
    /\ winner = activeGame.teams.team2
    /\ winner.score >= activeGame.targetScore
    /\ activeGame.teams.team1.score < activeGame.targetScore
    /\ Len(activeGame.roundHistory) = 2

\* C6: when win detection runs with no winner set and both teams at or above the target,
\* it records team1, and the wins go to team1's players and not to team2's.
C6_Team1WinsTie ==
    [][(lastOp' = "effect" /\ activeGame # Null /\ winner = Null
        /\ activeGame.teams.team1.score >= activeGame.targetScore
        /\ activeGame.teams.team2.score >= activeGame.targetScore) =>
            /\ winner' = activeGame.teams.team1
            /\ \A i \in LedgerOf(activeGame.teams.team1) : players'[i].wins = players[i].wins + 1
            /\ \A i \in LedgerOf(activeGame.teams.team2) : players'[i].wins = players[i].wins]_vars

\* Both teams crossed the target in a round team2 bid, team2 has the higher score, and
\* team1 is the winner.
C6_Witness ==
    /\ activeGame # Null
    /\ lastOp = "effect"
    /\ winner = activeGame.teams.team1
    /\ activeGame.teams.team1.score >= activeGame.targetScore
    /\ activeGame.teams.team2.score > activeGame.teams.team1.score
    /\ Len(activeGame.roundHistory) = 2
    /\ HasPlayer(activeGame.teams.team2, activeGame.roundHistory[2].spielmacherId)
    /\ activeGame.roundHistory[1].team1Total < activeGame.targetScore
    /\ activeGame.roundHistory[1].team2Total < activeGame.targetScore
    /\ \A i \in LedgerOf(activeGame.teams.team1) : players[i].wins = 1
    /\ \A i \in LedgerOf(activeGame.teams.team2) : players[i].wins = 0

---------------------------------------------------------------------------
\* Properties of calculateRoundScores (SpecCalc): roundData is the argument, the active
\* game's teams are the teams, calcResult is what the call returned.

\* An entered value, a missing entry counted as 0.
Entered(object, id) == IF id \in DOMAIN object THEN object[id] ELSE 0

BidderIsMember ==
    \E key \in {"team1", "team2"} : HasPlayer(activeGame.teams[key], roundData.spielmacherId)

\* The team the bidder is on, and the other one.
BidKey == CHOOSE key \in {"team1", "team2"} :
              HasPlayer(activeGame.teams[key], roundData.spielmacherId)
OtherKey == CHOOSE key \in {"team1", "team2"} : key # BidKey

\* Meld plus tricks of a team's players, as entered.
EnteredTotal(key) ==
    LET team == activeGame.teams[key]
    IN  SumSeq([i \in DOMAIN team.players |->
                    Entered(roundData.meldValues, team.players[i].id)
                    + Entered(roundData.trickPoints, team.players[i].id)])

\* The round delta returned for a team.
Delta(key) == IF key = "team1" THEN calcResult.team1RoundScore ELSE calcResult.team2RoundScore

\* The sum of the returned round scores of a team's players.
ScoreSum(key) ==
    LET team == activeGame.teams[key]
    IN  SumSeq([i \in DOMAIN team.players |-> calcResult.playerScores[team.players[i].id]])

Returned == calcResult # Null /\ BidderIsMember

\* C7: not abandoned and the bidder's team total below the bid: the bidder's team delta
\* is -2 * bidValue and both of its players score 0.
C7_FailedBidPenalty ==
    (Returned /\ ~roundData.gameAbandoned /\ EnteredTotal(BidKey) < roundData.bidValue) =>
        /\ Delta(BidKey) = -2 * roundData.bidValue
        /\ \A id \in PlayerIds(activeGame.teams[BidKey]) : calcResult.playerScores[id] = 0

\* Team2 bid 150 and collected 100 tricks and 50 meld less than needed, with entries missing.
C7_Witness ==
    /\ Returned
    /\ ~roundData.gameAbandoned
    /\ BidKey = "team2"
    /\ roundData.bidValue = 150
    /\ EnteredTotal(BidKey) = 100
    /\ DOMAIN roundData.meldValues # CalcIds
    /\ calcResult.team2RoundScore = -300

\* C8: abandoned: the bidder's team delta is -bidValue, the other team's delta is 0 and
\* all four players score 0, whatever meld and tricks were entered.
C8_AbandonedRound ==
    (Returned /\ roundData.gameAbandoned) =>
        /\ Delta(BidKey) = -roundData.bidValue
        /\ Delta(OtherKey) = 0
        /\ DOMAIN calcResult.playerScores =
               PlayerIds(activeGame.teams.team1) \cup PlayerIds(activeGame.teams.team2)
        /\ \A id \in DOMAIN calcResult.playerScores : calcResult.playerScores[id] = 0

\* An abandoned round in which both teams had entered meld and tricks.
C8_Witness ==
    /\ Returned
    /\ roundData.gameAbandoned
    /\ BidKey = "team1"
    /\ EnteredTotal(BidKey) > roundData.bidValue
    /\ EnteredTotal(OtherKey) > 0
    /\ \A id \in CalcIds : Entered(roundData.trickPoints, id) # 0
    /\ calcResult.team1RoundScore = -roundData.bidValue

\* C9: not abandoned: a player of either team with 0 (or no) trick points scores 0; a
\* player with trick points, on the other team or on a bidder's team that made its bid,
\* scores meld + tricks.
C9_ZeroTrickRule ==
    (Returned /\ ~roundData.gameAbandoned) =>
        \A key \in {"team1", "team2"} :
            \A id \in PlayerIds(activeGame.teams[key]) :
                /\ Entered(roundData.trickPoints, id) = 0 => calcResult.playerScores[id] = 0
                /\ (/\ Entered(roundData.trickPoints, id) # 0
                    /\ (key = OtherKey \/ EnteredTotal(BidKey) >= roundData.bidValue)) =>
                       calcResult.playerScores[id] =
                           Entered(roundData.meldValues, id) + Entered(roundData.trickPoints, id)

\* The bid was made; on each team one player has meld and no tricks and scores 0, the
\* other has meld and tricks and scores both.
C9_Witness ==
    /\ Returned
    /\ ~roundData.gameAbandoned
    /\ EnteredTotal(BidKey) >= roundData.bidValue
    /\ \A key \in {"team1", "team2"} :
        /\ \E id \in PlayerIds(activeGame.teams[key]) :
            /\ Entered(roundData.trickPoints, id) = 0
            /\ Entered(roundData.meldValues, id) > 0
            /\ calcResult.playerScores[id] = 0
        /\ \E id \in PlayerIds(activeGame.teams[key]) :
            /\ Entered(roundData.trickPoints, id) > 0
            /\ Entered(roundData.meldValues, id) > 0
            /\ calcResult.playerScores[id] =
                   Entered(roundData.meldValues, id) + Entered(roundData.trickPoints, id)

\* A player of the team with meld entered and no trick points.
HasZeroedMeld(key) ==
    \E id \in PlayerIds(activeGame.teams[key]) :
        Entered(roundData.trickPoints, id) = 0 /\ Entered(roundData.meldValues, id) # 0

\* C10: not abandoned and the bidder's team total at or above the bid: the bidder's team
\* delta is the sum of its two players' round scores; it is the team total exactly when
\* no player of the team has meld and no tricks, and below the total otherwise.
C10_BidMadeDelta ==
    (Returned /\ ~roundData.gameAbandoned /\ EnteredTotal(BidKey) >= roundData.bidValue) =>
        /\ Delta(BidKey) = ScoreSum(BidKey)
        /\ (Delta(BidKey) = EnteredTotal(BidKey)) <=> ~HasZeroedMeld(BidKey)
        /\ HasZeroedMeld(BidKey) => Delta(BidKey) < EnteredTotal(BidKey)

\* The bid of 150 is made only with the meld of a player without tricks: the team gets
\* the other player's 100.
C10_Witness ==
    /\ Returned
    /\ ~roundData.gameAbandoned
    /\ roundData.bidValue = 150
    /\ EnteredTotal(BidKey) = 150
    /\ HasZeroedMeld(BidKey)
    /\ Delta(BidKey) = 100

---------------------------------------------------------------------------
\* The branch calculateRoundScores took for roundData.
Abandoned == roundData.gameAbandoned
BidFailed == ~roundData.gameAbandoned /\ EnteredTotal(BidKey) < roundData.bidValue
BidWasMade == ~roundData.gameAbandoned /\ EnteredTotal(BidKey) >= roundData.bidValue

\* C11: for a bidder on either team and in every branch, the other team's delta is the sum
\* of its two players' returned round scores; the bidder's team delta is the sum of its
\* players' scores when the bid was made and differs from it when the bid failed or the
\* round was abandoned; team1's delta is returned as team1RoundScore and team2's as
\* team2RoundScore whichever team bid.
C11_TeamDeltas ==
    Returned =>
        LET bidOnTeam1 == HasPlayer(activeGame.teams.team1, roundData.spielmacherId)
            sum1 == ScoreSum("team1")
            sum2 == ScoreSum("team2")
        IN  /\ bidOnTeam1 =>
                /\ calcResult.team2RoundScore = sum2
                /\ BidWasMade => calcResult.team1RoundScore = sum1
                /\ (BidFailed \/ Abandoned) => calcResult.team1RoundScore # sum1
            /\ ~bidOnTeam1 =>
                /\ calcResult.team1RoundScore = sum1
                /\ BidWasMade => calcResult.team2RoundScore = sum2
                /\ (BidFailed \/ Abandoned) => calcResult.team2RoundScore # sum2

\* Team2 bid and failed while team1's players scored: team1's sum is in team1RoundScore,
\* the penalty in team2RoundScore.
C11_Witness ==
    /\ Returned
    /\ BidKey = "team2"
    /\ BidFailed
    /\ ScoreSum("team1") > 0
    /\ ScoreSum("team2") = 0
    /\ calcResult.team1RoundScore = ScoreSum("team1")
    /\ calcResult.team2RoundScore = -2 * roundData.bidValue

---------------------------------------------------------------------------
\* Properties of the handlers called directly (SpecDirect): roundData is the argument of
\* the last handleAddRound call.

\* C12: a handleAddRound call whose bidder is on neither team of the active game changes
\* neither the game (team scores, round history) nor any player (lifetime scores).
C12_NonMemberBidderRejected ==
    [][(/\ lastOp' = "addRound"
        /\ activeGame # Null
        /\ ~HasPlayer(activeGame.teams.team1, roundData'.spielmacherId)
        /\ ~HasPlayer(activeGame.teams.team2, roundData'.spielmacherId)) =>
            (activeGame' = activeGame /\ players' = players)]_vars

\* C13: while a winner is set, handleAddRound, handleUndoRound and a forfeit change neither
\* the game (team scores, round history), nor the winner, nor any player.
C13_WonOperationsAreNoOps ==
    [][(winner # Null /\ lastOp' \in {"addRound", "undoRound", "forfeit"}) =>
            (activeGame' = activeGame /\ winner' = winner /\ players' = players)]_vars

\* C16: handleAddRound leaves the active-game slot and the players as they are exactly when
\* no game is active; handleUndoRound leaves them as they are exactly when no game is
\* active or the history is empty.
C16_RejectedCallsAreNoOps ==
    /\ [][lastOp' = "addRound" =>
            ((activeGame' = activeGame /\ players' = players) <=> activeGame = Null)]_vars
    /\ [][lastOp' = "undoRound" =>
            ((activeGame' = activeGame /\ players' = players) <=>
                (activeGame = Null \/ Len(activeGame.roundHistory) = 0))]_vars

\* handleUndoRound was called on a game whose history was empty and had always been.
C16_Witness ==
    /\ lastOp = "undoRound"
    /\ activeGame # Null
    /\ roundsAdded = 0
    /\ Len(activeGame.roundHistory) = 0
    /\ activeGame.teams.team1.score = 0
    /\ \A i \in DOMAIN players : players[i].lifetimeScore = 0

---------------------------------------------------------------------------
\* Properties of the players' statistics

\* C14: the step that sets the winner of the active game, by win detection or by a forfeit
\* and for either team, adds one game to each of the four players of the two teams, one win
\* to each of the two players of the winning team, and changes nothing else of any player.
C14_CompletionCountsAllFour ==
    [][(activeGame # Null /\ winner = Null /\ winner' # Null) =>
            \A i \in DOMAIN players :
                LET played == \/ HasPlayer(activeGame.teams.team1, players[i].id)
                              \/ HasPlayer(activeGame.teams.team2, players[i].id)
                    won == HasPlayer(winner', players[i].id)
                IN  players'[i] =
                        [players[i] EXCEPT !.gamesPlayed = IF played THEN @ + 1 ELSE @,
                                           !.wins = IF won THEN @ + 1 ELSE @]]_vars

\* C20: every player in the ledger has gamesPlayed >= 0 and 0 <= wins <= gamesPlayed.
C20_WinsWithinGamesPlayed ==
    \A i \in DOMAIN players :
        /\ players[i].gamesPlayed >= 0
        /\ players[i].wins >= 0
        /\ players[i].wins <= players[i].gamesPlayed

\* A game was won and reset: a winner has one win in one game, a loser no win in one game.
C20_Witness ==
    /\ lastOp = "reset"
    /\ activeGame = Null
    /\ \E i \in DOMAIN players : players[i].wins = 1 /\ players[i].gamesPlayed = 1
    /\ \E i \in DOMAIN players : players[i].wins = 0 /\ players[i].gamesPlayed = 1

\* The sum of a player's playerScores entries over a round history.
PlayerHistorySum(history, id) ==
    SumSeq([j \in DOMAIN history |-> Entered(history[j].playerScores, id)])

\* C15: during a game, every player in the ledger who is on one of the teams has the
\* lifetimeScore they had at game start (the teams hold the players as they were at the
\* start) plus the sum of their playerScores entries over the rounds now in the history.
C15_LifetimeTracksHistory ==
    activeGame # Null =>
        \A i \in DOMAIN players :
            \A k \in DOMAIN AllPlayers(activeGame.teams) :
                LET atStart == AllPlayers(activeGame.teams)[k]
                IN  atStart.id = players[i].id =>
                        players[i].lifetimeScore =
                            atStart.lifetimeScore
                            + PlayerHistorySum(activeGame.roundHistory, players[i].id)

\* Two rounds were added and the second undone; the round that remains cost team1 a
\* penalty, which no player of team1 carries, and gave a player of team2 points.
C15_Witness ==
    /\ activeGame # Null
    /\ winner = Null
    /\ lastOp = "undoRound"
    /\ roundsAdded = 2
    /\ Len(activeGame.roundHistory) = 1
    /\ activeGame.teams.team1.score < 0
    /\ \A i \in LedgerOf(activeGame.teams.team1) : players[i].lifetimeScore = 0
    /\ \E i \in LedgerOf(activeGame.teams.team2) : players[i].lifetimeScore > 0

---------------------------------------------------------------------------
\* Properties of the game start (SpecTarget)

\* C17: no game is ever active with a target that is not strictly positive.
C17_NonPositiveTargetRejected ==
    activeGame # Null => activeGame.targetScore > 0

---------------------------------------------------------------------------
\* Properties of the review step (SpecReview)

\* C18: a round is only added while a review is pending, and what the step commits is what
\* the review showed for the reviewed input: the new history entry carries the reviewed
\* bidder and bid and the previewed team deltas and player scores, the team scores grow
\* by the previewed deltas and the lifetime scores by the previewed player scores; and in
\* every state a pending preview is what calculateRoundScores gives for the reviewed input
\* and the teams as they are now, also after an undo has changed the team scores.
C18_CommitEqualsPreview ==
    /\ [][lastOp' = "addRound" =>
            /\ roundData # Null
            /\ calcResult # Null
            /\ activeGame # Null
            /\ LET entry == activeGame'.roundHistory[Len(activeGame'.roundHistory)]
               IN  /\ Len(activeGame'.roundHistory) = Len(activeGame.roundHistory) + 1
                   /\ entry.spielmacherId = roundData.spielmacherId
                   /\ entry.bidValue = roundData.bidValue
                   /\ entry.team1RoundScore = calcResult.team1RoundScore
                   /\ entry.team2RoundScore = calcResult.team2RoundScore
                   /\ entry.playerScores = calcResult.playerScores
            /\ activeGame'.teams.team1.score =
                   activeGame.teams.team1.score + calcResult.team1RoundScore
            /\ activeGame'.teams.team2.score =
                   activeGame.teams.team2.score + calcResult.team2RoundScore
            /\ \A i \in DOMAIN players :
                   players'[i].lifetimeScore =
                       players[i].lifetimeScore + Entered(calcResult.playerScores, players[i].id)]_vars
    /\ [](roundData # Null =>
            /\ activeGame # Null
            /\ calcResult = calculateRoundScores(roundData, activeGame.teams))

\* A failed bid of team1 was reviewed after the first round, and the first round was undone
\* while the review was pending: the team scores are 0 again, the preview still stands.
C18_Witness ==
    /\ lastOp = "undoRound"
    /\ activeGame # Null
    /\ winner = Null
    /\ roundData # Null
    /\ calcResult # Null
    /\ roundsAdded = 1
    /\ Len(activeGame.roundHistory) = 0
    /\ HasPlayer(activeGame.teams.team1, roundData.spielmacherId)
    /\ calcResult.team1RoundScore = -2 * roundData.bidValue
    /\ calcResult.team2RoundScore > 0

---------------------------------------------------------------------------
\* Properties of the player collection (SpecPlayers)

\* C19: the ids of the players in the collection are pairwise distinct, and a player just
\* created has lifetimeScore, gamesPlayed and wins 0.
C19_PlayerIdsDistinct ==
    /\ \A i, j \in DOMAIN players : i # j => players[i].id # players[j].id
    /\ (lastOp = "addPlayer") =>
           LET created == players[Len(players)]
           IN  created.lifetimeScore = 0 /\ created.gamesPlayed = 0 /\ created.wins = 0

---------------------------------------------------------------------------
\* Properties of the round history

\* C21: with an active game, the entry at position k of the history has round number k,
\* for every k up to the history's length.
C21_RoundNumbersContiguous ==
    activeGame # Null =>
        \A k \in DOMAIN activeGame.roundHistory : activeGame.roundHistory[k].round = k

\* A round was added, undone, and another round added: it is round 1 again.
C21_Witness ==
    /\ activeGame # Null
    /\ lastOp = "addRound"
    /\ roundsAdded = 2
    /\ Len(activeGame.roundHistory) = 1
    /\ activeGame.roundHistory[1].round = 1

\* C22: with an active game, every history entry's team totals are the sums of the team
\* round scores over the entries up to it, and the last entry's totals are the current
\* team scores; an add step keeps the entries that were there and appends one, an undo
\* step keeps all entries but the last.
C22_TotalsAreRunningSums ==
    /\ [](activeGame # Null =>
            LET history == activeGame.roundHistory
            IN  /\ \A k \in DOMAIN history :
                       /\ history[k].team1Total = Team1Sum(SubSeq(history, 1, k))
                       /\ history[k].team2Total = Team2Sum(SubSeq(history, 1, k))
                /\ Len(history) > 0 =>
                       /\ history[Len(history)].team1Total = activeGame.teams.team1.score
                       /\ history[Len(history)].team2Total = activeGame.teams.team2.score)
    /\ [][(lastOp' = "addRound" /\ activeGame # Null) =>
            /\ activeGame' # Null
            /\ Len(activeGame'.roundHistory) = Len(activeGame.roundHistory) + 1
            /\ SubSeq(activeGame'.roundHistory, 1, Len(activeGame.roundHistory))
                   = activeGame.roundHistory]_vars
    /\ [][(lastOp' = "undoRound" /\ activeGame # Null /\ Len(activeGame.roundHistory) > 0) =>
            /\ activeGame' # Null
            /\ activeGame'.roundHistory
                   = SubSeq(activeGame.roundHistory, 1, Len(activeGame.roundHistory) - 1)]_vars

\* Two rounds are in the history, both with points for team2 and the first with a penalty
\* for team1: the second entry's totals differ from its round scores.
C22_Witness ==
    /\ activeGame # Null
    /\ lastOp = "addRound"
    /\ Len(activeGame.roundHistory) = 2
    /\ activeGame.roundHistory[1].team1RoundScore < 0
    /\ activeGame.roundHistory[1].team2RoundScore > 0
    /\ activeGame.roundHistory[2].team2RoundScore > 0
    /\ activeGame.roundHistory[2].team2Total # activeGame.roundHistory[2].team2RoundScore
    /\ activeGame.roundHistory[2].team1Total # activeGame.roundHistory[2].team1RoundScore

---------------------------------------------------------------------------
\* Properties of forfeit and reset

\* C23: a forfeit in a game without a winner sets one of the game's two teams as winner,
\* whatever the scores; it leaves the game (team scores, history, target) as it is; it
\* records the completion once: each player of the winner gains exactly one win and one
\* game, nobody gains more than one game or any win besides, no lifetimeScore changes,
\* and the win-detection run that follows changes neither the players nor the winner.
C23_ForfeitSetsNamedWinner ==
    /\ [][(lastOp' = "forfeit" /\ activeGame # Null /\ winner = Null) =>
            /\ winner' \in {activeGame.teams.team1, activeGame.teams.team2}
            /\ activeGame' = activeGame
            /\ \A i \in DOMAIN players :
                /\ players'[i].lifetimeScore = players[i].lifetimeScore
                /\ players'[i].gamesPlayed - players[i].gamesPlayed \in {0, 1}
                /\ IF HasPlayer(winner', players[i].id)
                   THEN /\ players'[i].wins = players[i].wins + 1
                        /\ players'[i].gamesPlayed = players[i].gamesPlayed + 1
                   ELSE players'[i].wins = players[i].wins]_vars
    /\ [][(lastOp = "forfeit" /\ lastOp' = "effect") =>
            (players' = players /\ winner' = winner /\ activeGame' = activeGame)]_vars

\* After a round, the team with the lower score, below the target, was named winner by a
\* forfeit; the scores and the history are as the round left them.
C23_Witness ==
    /\ activeGame # Null
    /\ lastOp = "forfeit"
    /\ winner = activeGame.teams.team1
    /\ Len(activeGame.roundHistory) = 1
    /\ activeGame.teams.team1.score < activeGame.teams.team2.score
    /\ activeGame.teams.team2.score < activeGame.targetScore
    /\ activeGame.teams.team1.score = Team1Sum(activeGame.roundHistory)
    /\ \A i \in LedgerOf(activeGame.teams.team1) : players[i].wins = 1

\* C24: a discard or a reset leaves no active game and no winner and changes no player; the
\* win-detection run that follows changes nothing either.
C24_ResetFrame ==
    /\ [][lastOp' \in {"discard", "reset"} =>
            (activeGame' = Null /\ winner' = Null /\ players' = players)]_vars
    /\ [][(lastOp \in {"discard", "reset"} /\ lastOp' = "effect") =>
            (activeGame' = Null /\ winner' = Null /\ players' = players)]_vars

\* A game with a round played was discarded without a winner: nobody has a game or a win.
C24_Witness ==
    /\ lastOp = "discard"
    /\ activeGame = Null
    /\ winner = Null
    /\ roundsAdded > 0
    /\ \A i \in DOMAIN players : players[i].gamesPlayed = 0 /\ players[i].wins = 0
    /\ \E i \in DOMAIN players : players[i].lifetimeScore > 0

\* C27: whenever a winner is set, a game is active.
C27_WinnerImpliesActiveGame ==
    winner # Null => activeGame # Null

\* Win detection has set the winner of the active game after its second round.
C27_Witness ==
    /\ winner # Null
    /\ activeGame # Null
    /\ lastOp = "effect"
    /\ roundsAdded = 2
    /\ winner.score >= activeGame.targetScore
    /\ winner \in {activeGame.teams.team1, activeGame.teams.team2}

---------------------------------------------------------------------------
\* Properties of the bid field (SpecBid)

\* C25: no round with a bid that is not strictly positive is under review, and none is in
\* the history of the active game.
C25_NonPositiveBidRejected ==
    /\ roundData # Null => roundData.bidValue > 0
    /\ activeGame # Null =>
           \A k \in DOMAIN activeGame.roundHistory : activeGame.roundHistory[k].bidValue > 0

---------------------------------------------------------------------------
\* Properties of calculateRoundScores (SpecCalc), continued

\* C28: for non-negative meld and trick entries and a positive bid, the returned mapping
\* has exactly the four players of the two teams as keys and every score in it is >= 0, so
\* that handleAddRound's ledger update lowers no player's lifetimeScore; a team's delta is
\* negative only for the bidder's team and only when the bid failed or the round was
\* abandoned.
C28_PlayerScoresNonNegative ==
    (/\ calcResult # Null
     /\ roundData.bidValue > 0
     /\ \A id \in DOMAIN roundData.meldValues : roundData.meldValues[id] >= 0
     /\ \A id \in DOMAIN roundData.trickPoints : roundData.trickPoints[id] >= 0) =>
        /\ DOMAIN calcResult.playerScores =
               PlayerIds(activeGame.teams.team1) \cup PlayerIds(activeGame.teams.team2)
        /\ Cardinality(DOMAIN calcResult.playerScores) = 4
        /\ \A id \in DOMAIN calcResult.playerScores : calcResult.playerScores[id] >= 0
        /\ \A i \in DOMAIN players :
               AddRoundPlayers(players, calcResult.playerScores)[i].lifetimeScore
                   >= players[i].lifetimeScore
        /\ BidderIsMember =>
               \A key \in {"team1", "team2"} :
                   Delta(key) < 0 => (key = BidKey /\ (BidFailed \/ Abandoned))

\* Team1 failed its bid: its delta is negative, its players score 0, and a player of team2
\* scores meld and tricks.
C28_Witness ==
    /\ Returned
    /\ BidKey = "team1"
    /\ BidFailed
    /\ calcResult.team1RoundScore < 0
    /\ calcResult.team2RoundScore > 0
    /\ \A id \in PlayerIds(activeGame.teams.team1) : calcResult.playerScores[id] = 0
    /\ \E id \in PlayerIds(activeGame.teams.team2) : calcResult.playerScores[id] = 150

---------------------------------------------------------------------------
\* Properties of deleting players (SpecDelete)

\* The ids of the ledger, in order.
LedgerIds(ps) == [i \in DOMAIN ps |-> ps[i].id]

\* C26: a delete step removes from the ledger the entries with one id of the ledger and
\* keeps every other entry as it is and in order, and it leaves the active game and the
\* winner as they are; in every state the team scores of the active game are the sums of
\* the round scores in its history; an add or undo step leaves the ledger with the same
\* ids, adds to (takes from) every remaining player the score that the appended (removed)
\* entry holds for them, and brings no deleted player back.
C26_DeleteLeavesGame ==
    /\ [][lastOp' = "deletePlayer" =>
            /\ \E i \in DOMAIN players :
                   players' = SelectSeq(players, LAMBDA p : p.id # players[i].id)
            /\ activeGame' = activeGame
            /\ winner' = winner]_vars
    /\ [](activeGame # Null =>
            /\ activeGame.teams.team1.score = Team1Sum(activeGame.roundHistory)
            /\ activeGame.teams.team2.score = Team2Sum(activeGame.roundHistory))
    /\ [][(lastOp' = "addRound" /\ activeGame # Null) =>
            LET entry == activeGame'.roundHistory[Len(activeGame'.roundHistory)]
            IN  /\ LedgerIds(players') = LedgerIds(players)
                /\ \A i \in DOMAIN players :
                       players'[i] = [players[i] EXCEPT !.lifetimeScore =
                                          @ + Entered(entry.playerScores, players[i].id)]]_vars
    /\ [][(lastOp' = "undoRound" /\ activeGame # Null /\ Len(activeGame.roundHistory) > 0) =>
            LET entry == activeGame.roundHistory[Len(activeGame.roundHistory)]
            IN  /\ LedgerIds(players') = LedgerIds(players)
                /\ \A i \in DOMAIN players :
                       players'[i] = [players[i] EXCEPT !.lifetimeScore =
                                          @ - Entered(entry.playerScores, players[i].id)]]_vars

\* Player 1 was deleted during the game and a round was added after that in which player 1
\* scored: the team has the points, the ledger has no player 1, the teams still do.
C26_Witness ==
    /\ activeGame # Null
    /\ lastOp = "addRound"
    /\ HasPlayer(activeGame.teams.team1, 1)
    /\ \A i \in DOMAIN players : players[i].id # 1
    /\ Len(activeGame.roundHistory) = 1
    /\ activeGame.roundHistory[1].playerScores[1] > 0
    /\ activeGame.teams.team1.score = activeGame.roundHistory[1].playerScores[1]
    /\ \A i \in DOMAIN players : players[i].lifetimeScore = 0

====
